---- MODULE Spec2Model ----
(***************************************************************************)
(* Model of the generic graph library of TP7 (Graph.h): graph construction *)
(* by content, Prim's algorithm over a mutable priority queue, Kruskal's   *)
(* algorithm over the disjoint-set forest embedded in the vertices.        *)
(*                                                                         *)
(* A Vertex<T>* is the position of the vertex in vertexSet (positions are  *)
(* stable: nothing is ever removed); C++ index 0 is position 1 here.  An   *)
(* Edge<T>* is the location <<v, i>> of the edge: the i-th element of the  *)
(* adjacency of vertex v (adjacencies only grow at the end).               *)
(* Weights and distances are doubles; they are modelled by the integers    *)
(* -1..MaxW together with INF, the value of numeric_limits<double>::max(). *)
(***************************************************************************)
EXTENDS Integers, Sequences, FiniteSets, TLC

\* ---------------------------------------------------------------- bounds
\* vertices of a graph
MaxV == 3
\* the weights below INF are -1..MaxW
MaxW == 1
\* successful addEdge / addBidirectionalEdge calls on one graph
MaxEdgeCalls == 3
\* of which calls of addEdge or calls with sourc = dest
MaxSpecial == 1
\* calculatePrim / calculateKruskal calls on one graph
MaxRuns == 2
\* SpecSets: vertices, and edges, of the graphs whose sets are joined
MaxSetV == 4
MaxSetEdges == 4
\* SpecBuild: distinct contents offered to the construction calls
MaxContents == 2
\* SpecBuild: vertices plus successful edge-adding calls
MaxBuildSize == 4

\* ------------------------------------------------------------- constants
\* #define INF std::numeric_limits<double>::max()
INF == 1000
\* nullptr, as a Vertex<T>*
NULL == 0
\* nullptr, as an Edge<T>*
NULLE == <<0, 0>>
\* The value of a member the constructor leaves without an initializer
\* (visited, id, rank).  It is no boolean and no number: a read of it before
\* a write would stop the evaluation.
INDETERMINATE == "indeterminate"

\* the doubles offered as weights (addEdge takes any double): a negative one,
\* 0..MaxW, and numeric_limits<double>::max()
Weights == (-1..MaxW) \cup {INF}

VARIABLES vertexSet, pc, last, ret, q, currV, ei, edges, ek, edgeCounter, runs

vars == <<vertexSet, pc, last, ret, q, currV, ei, edges, ek, edgeCounter, runs>>

\* ------------------------------------------------------- Vertex and Edge
\* Vertex<T>::Vertex(T in): info(in) {}  with the default member initializers
NewVertex(in) ==
    [info |-> in, adj |-> <<>>, visited |-> INDETERMINATE, dist |-> 0,
     path |-> NULL, id |-> INDETERMINATE, rank |-> INDETERMINATE]

\* Edge<T>::Edge(o, d, w): orig(o), dest(d), weight(w); selected = false; reverse = nullptr
NewEdge(o, d, w) ==
    [orig |-> o, dest |-> d, weight |-> w, selected |-> FALSE, reverse |-> NULLE]

V == DOMAIN vertexSet

\* every Edge<T>* of the vertex set vs
EdgeLocs(vs) == UNION {{<<v, i>> : i \in DOMAIN vs[v].adj} : v \in DOMAIN vs}

EdgeAt(vs, l) == vs[l[1]].adj[l[2]]

\* Vertex<T>::addEdge: adj.push_back(new Edge(this, d, w)), on the vertex set vs
VertexAddEdge(vs, v, d, w) ==
    [vs EXCEPT ![v].adj = Append(@, NewEdge(v, d, w))]

\* Graph<T>::findVertex: the first vertex whose info equals in, or nullptr
FindVertexIn(vs, in) ==
    IF \E v \in DOMAIN vs : vs[v].info = in
    THEN CHOOSE v \in DOMAIN vs :
            /\ vs[v].info = in
            /\ \A u \in DOMAIN vs : vs[u].info = in => v <= u
    ELSE NULL

findVertex(in) == FindVertexIn(vertexSet, in)

Idle == pc = "idle"

Scratch == <<q, currV, ei, edges, ek, edgeCounter, runs>>

\* ---------------------------------------------------------- construction
\* the vertex set after Graph<T>::addVertex(in) (unchanged when it fails)
AddVertexNoCheck(in) == Append(vertexSet, NewVertex(in))
AddVertexResult(in) ==
    IF findVertex(in) # NULL THEN vertexSet ELSE Append(vertexSet, NewVertex(in))

\* bool Graph<T>::addVertex(const T &in)
addVertex(in) ==
    /\ Idle
    /\ vertexSet' = AddVertexResult(in)
    /\ ret' = IF findVertex(in) # NULL THEN "false" ELSE "true"
    /\ last' = "addVertex"
    /\ UNCHANGED <<pc, Scratch>>

EndpointsExist(sourc, dest) == findVertex(sourc) # NULL /\ findVertex(dest) # NULL

\* the vertex set after Graph<T>::addEdge(sourc, dest, w)
AddEdgeToDest(sourc, dest, w) ==
    LET v1 == findVertex(sourc)
        v2 == findVertex(dest)
    IN  IF v1 = NULL \/ v2 = NULL THEN vertexSet ELSE VertexAddEdge(vertexSet, v2, v1, w)
AddEdgeResult(sourc, dest, w) ==
    LET v1 == findVertex(sourc)
        v2 == findVertex(dest)
    IN  IF v1 = NULL \/ v2 = NULL THEN vertexSet ELSE VertexAddEdge(vertexSet, v1, v2, w)

\* bool Graph<T>::addEdge(const T &sourc, const T &dest, double w)
addEdge(sourc, dest, w) ==
    /\ Idle
    /\ vertexSet' = AddEdgeResult(sourc, dest, w)
    /\ ret' = IF EndpointsExist(sourc, dest) THEN "true" ELSE "false"
    /\ last' = "addEdge"
    /\ UNCHANGED <<pc, Scratch>>

\* the vertex set after Graph<T>::addBidirectionalEdge(sourc, dest, w)
AddBidirectionalEdgeOneReverse(sourc, dest, w) ==
    LET v1 == findVertex(sourc)
        v2 == findVertex(dest)
    IN  IF v1 = NULL \/ v2 = NULL THEN vertexSet
        ELSE LET vs1 == VertexAddEdge(vertexSet, v1, v2, w)
                 edge1 == <<v1, Len(vs1[v1].adj)>>
                 vs2 == VertexAddEdge(vs1, v2, v1, w)
                 edge2 == <<v2, Len(vs2[v2].adj)>>
             IN  [vs2 EXCEPT ![edge1[1]].adj[edge1[2]].reverse = edge2]
AddBidirectionalEdgeResult(sourc, dest, w) ==
    LET v1 == findVertex(sourc)
        v2 == findVertex(dest)
    IN  IF v1 = NULL \/ v2 = NULL THEN vertexSet
        ELSE LET vs1 == VertexAddEdge(vertexSet, v1, v2, w)
                 edge1 == <<v1, Len(vs1[v1].adj)>>
                 vs2 == VertexAddEdge(vs1, v2, v1, w)
                 edge2 == <<v2, Len(vs2[v2].adj)>>
                 vs3 == [vs2 EXCEPT ![edge1[1]].adj[edge1[2]].reverse = edge2]
             IN  [vs3 EXCEPT ![edge2[1]].adj[edge2[2]].reverse = edge1]

\* bool Graph<T>::addBidirectionalEdge(const T &sourc, const T &dest, double w)
addBidirectionalEdge(sourc, dest, w) ==
    /\ Idle
    /\ vertexSet' = AddBidirectionalEdgeResult(sourc, dest, w)
    /\ ret' = IF EndpointsExist(sourc, dest) THEN "true" ELSE "false"
    /\ last' = "addBidirectionalEdge"
    /\ UNCHANGED <<pc, Scratch>>

\* -------------------------------------------------- Prim's algorithm
\* lines 255-259: every vertex gets dist = INF, path = nullptr, visited = false
PrimResetKeepsPath(vs) ==
    [v \in DOMAIN vs |-> [vs[v] EXCEPT !.dist = INF, !.visited = FALSE]]
PrimReset(vs) ==
    [v \in DOMAIN vs |-> [vs[v] EXCEPT !.dist = INF, !.path = NULL, !.visited = FALSE]]

\* calculatePrim, lines 254-263: the reset, then vertexSet.at(0) is inserted in
\* the queue and gets dist = 0; at(0) throws std::out_of_range on the empty graph
PrimStart ==
    /\ Idle
    /\ Len(runs) < MaxRuns
    /\ runs' = Append(runs, "calculatePrim")
    /\ IF vertexSet = <<>>
       THEN /\ vertexSet' = PrimReset(vertexSet)
            /\ ret' = "out_of_range"
            /\ last' = "calculatePrim"
            /\ UNCHANGED <<pc, q, currV, ei>>
       ELSE /\ vertexSet' = [PrimReset(vertexSet) EXCEPT ![1].dist = 0]
            /\ q' = {1}
            /\ pc' = "prim"
            /\ UNCHANGED <<ret, last, currV, ei>>
    /\ UNCHANGED <<edges, ek, edgeCounter>>

\* MutablePriorityQueue<Vertex<T>>::extractMin: the vertices the queue may
\* hand out, those of least dist (Vertex::operator< compares dist)
ExtractMin(vs, queue) == {v \in queue : \A u \in queue : ~(vs[u].dist < vs[v].dist)}

\* lines 265-267: one turn of the while loop, up to the for loop
PrimExtract ==
    /\ pc = "prim"
    /\ q # {}
    /\ \E v \in ExtractMin(vertexSet, q) :
          /\ q' = q \ {v}
          /\ currV' = v
          /\ vertexSet' = [vertexSet EXCEPT ![v].visited = TRUE]
          /\ ei' = 1
          /\ pc' = IF Len(vertexSet[v].adj) = 0 THEN "prim" ELSE "primFor"
    /\ UNCHANGED <<ret, last, edges, ek, edgeCounter, runs>>

\* lines 269-281: the body of the for loop on the edge e of currV: the vertex
\* set after it
RelaxNoVisitedCheck(vs, u, e) ==
    IF vs[e.dest].dist > e.weight
    THEN [vs EXCEPT ![e.dest].dist = e.weight, ![e.dest].path = u]
    ELSE vs
RelaxDijkstra(vs, u, e) ==
    IF ~vs[e.dest].visited /\ vs[e.dest].dist > vs[u].dist + e.weight
    THEN [vs EXCEPT ![e.dest].dist = vs[u].dist + e.weight, ![e.dest].path = u]
    ELSE vs
RelaxResult(vs, u, e) ==
    IF ~vs[e.dest].visited /\ vs[e.dest].dist > e.weight
    THEN [vs EXCEPT ![e.dest].dist = e.weight, ![e.dest].path = u]
    ELSE vs

\* lines 275-279: q.insert(destV) when its dist was INF, q.decreaseKey(destV)
\* otherwise (the queue reads its keys from dist: the set is unchanged)
RelaxQueue(vs, queue, e) ==
    IF ~vs[e.dest].visited /\ vs[e.dest].dist > e.weight /\ vs[e.dest].dist = INF
    THEN queue \cup {e.dest}
    ELSE queue

\* lines 268-282: one turn of the for loop
PrimRelax ==
    /\ pc = "primFor"
    /\ ei <= Len(vertexSet[currV].adj)
    /\ LET e == vertexSet[currV].adj[ei]
       IN  /\ vertexSet' = RelaxResult(vertexSet, currV, e)
           /\ q' = RelaxQueue(vertexSet, q, e)
    /\ ei' = ei + 1
    /\ pc' = IF ei = Len(vertexSet[currV].adj) THEN "prim" ELSE "primFor"
    /\ UNCHANGED <<ret, last, currV, edges, ek, edgeCounter, runs>>

\* line 285: the queue is empty, return vertexSet
PrimReturn ==
    /\ pc = "prim"
    /\ q = {}
    /\ pc' = "idle"
    /\ ret' = "vertexSet"
    /\ last' = "calculatePrim"
    /\ currV' = NULL
    /\ ei' = 0
    /\ UNCHANGED <<vertexSet, q, edges, ek, edgeCounter, runs>>

calculatePrim == PrimStart \/ PrimExtract \/ PrimRelax \/ PrimReturn

\* ------------------------------------------------ disjoint sets
\* Graph<T>::makeSet(x): x->path = x; x->rank = 0
makeSet(vs, x) == [vs EXCEPT ![x].path = x, ![x].rank = 0]

\* Graph<T>::findSet(x): the vertex set after the call (paths compressed) and
\* the value returned
RECURSIVE findSet(_, _)
findSet(vs, x) ==
    IF x # vs[x].path
    THEN LET r == findSet(vs, vs[x].path)
             vs1 == [r.vs EXCEPT ![x].path = r.ret]
         IN  [vs |-> vs1, ret |-> vs1[x].path]
    ELSE [vs |-> vs, ret |-> vs[x].path]

\* Graph<T>::linkSets(x, y): the vertex set after the call
linkSets(vs, x, y) ==
    LET fi == findSet(vs, x)
        i == fi.ret
        fj == findSet(fi.vs, y)
        j == fj.ret
        vs2 == fj.vs
    IN  IF vs2[i].rank > vs2[j].rank
        THEN [vs2 EXCEPT ![j].path = i]
        ELSE IF vs2[i].rank = vs2[j].rank
             THEN [vs2 EXCEPT ![i].path = j, ![j].rank = vs2[j].rank + 1]
             ELSE [vs2 EXCEPT ![i].path = j]

\* ------------------------------------------------ Kruskal's algorithm
\* lines 327-331: makeSet(v); v->id = counter++ for every vertex, in order
KruskalSets(vs) ==
    [v \in DOMAIN vs |-> [makeSet(vs, v)[v] EXCEPT !.id = v - 1]]

\* line 336: e->selected = false for every edge of every vertex
KruskalUnselect(vs) ==
    [v \in DOMAIN vs |->
        [vs[v] EXCEPT !.adj = [i \in DOMAIN vs[v].adj |-> [vs[v].adj[i] EXCEPT !.selected = FALSE]]]]

\* lines 334-341: the edges with orig->id < dest->id, vertex by vertex and, in
\* a vertex, in the order of its adjacency
RECURSIVE CollectFrom(_, _, _)
CollectFrom(vs, v, i) ==
    IF v > Len(vs) THEN <<>>
    ELSE IF i > Len(vs[v].adj) THEN CollectFrom(vs, v + 1, 1)
    ELSE LET e == vs[v].adj[i]
         IN  IF vs[e.orig].id < vs[e.dest].id
             THEN <<(<<v, i>>)>> \o CollectFrom(vs, v, i + 1)
             ELSE CollectFrom(vs, v, i + 1)

KruskalCollect(vs) == CollectFrom(vs, 1, 1)

\* lines 343-345: std::sort with the comparison e1->weight < e2->weight; the
\* sort is not stable, so every arrangement in ascending weight may result
SortNone(vs, es) == {es}
SortByWeight(vs, es) ==
    LET n == Len(es)
        perms == {p \in [1..n -> 1..n] : \A a, b \in 1..n : a # b => p[a] # p[b]}
    IN  {[k \in 1..n |-> es[p[k]]] : p \in
            {p \in perms : \A a, b \in 1..n :
                a < b => ~(EdgeAt(vs, es[p[b]]).weight < EdgeAt(vs, es[p[a]]).weight)}}

\* calculateKruskal, lines 327-347
KruskalStart ==
    /\ Idle
    /\ Len(runs) < MaxRuns
    /\ runs' = Append(runs, "calculateKruskal")
    /\ LET vs1 == KruskalUnselect(KruskalSets(vertexSet))
       IN  /\ vertexSet' = vs1
           /\ edges' \in SortByWeight(vs1, KruskalCollect(vs1))
    /\ ek' = 1
    /\ edgeCounter' = 0
    /\ pc' = "kruskal"
    /\ UNCHANGED <<ret, last, q, currV, ei>>

\* lines 350-351: the two findSet calls of the test, then linkSets when the
\* representatives differ
KruskalLinkDirect(vs, e) ==
    LET f1 == findSet(vs, e.orig)
        f2 == findSet(f1.vs, e.dest)
    IN  IF f1.ret # f2.ret THEN [f2.vs EXCEPT ![e.orig].path = e.dest] ELSE f2.vs
KruskalLink(vs, e) ==
    LET f1 == findSet(vs, e.orig)
        f2 == findSet(f1.vs, e.dest)
    IN  IF f1.ret # f2.ret THEN linkSets(f2.vs, e.orig, e.dest) ELSE f2.vs

\* the test of line 350
KruskalJoins(vs, e) ==
    LET f1 == findSet(vs, e.orig)
    IN  f1.ret # findSet(f1.vs, e.dest).ret

\* lines 352-353: e->selected = true; e->reverse->selected = true
SelectPair(vs, l) ==
    LET r == EdgeAt(vs, l).reverse
        vs1 == [vs EXCEPT ![l[1]].adj[l[2]].selected = TRUE]
    IN  IF r = NULLE THEN vs1 ELSE [vs1 EXCEPT ![r[1]].adj[r[2]].selected = TRUE]

\* lines 349-359: one turn of the for loop.  An edge made by addEdge has
\* reverse = nullptr: the store through it is undefined behaviour, after which
\* the run is taken to be killed or to go on without the store.
KruskalEdge ==
    /\ pc = "kruskal"
    /\ ek <= Len(edges)
    /\ LET l == edges[ek]
           e == EdgeAt(vertexSet, l)
       IN  IF KruskalJoins(vertexSet, e)
           THEN /\ vertexSet' = SelectPair(KruskalLink(vertexSet, e), l)
                /\ edgeCounter' = edgeCounter + 1
                /\ IF e.reverse = NULLE
                   THEN pc' \in {"crashed", "kruskal"}
                   ELSE pc' = "kruskal"
           ELSE /\ vertexSet' = KruskalLink(vertexSet, e)
                /\ UNCHANGED <<edgeCounter, pc>>
    /\ ek' = ek + 1
    /\ UNCHANGED <<ret, last, q, currV, ei, edges, runs>>

\* Graph<T>::dfsKruskalPath(v): the vertex set after the call
RECURSIVE dfsKruskalPath(_, _)
RECURSIVE DfsFor(_, _, _)
DfsFor(vs, v, i) ==
    IF i > Len(vs[v].adj) THEN vs
    ELSE LET e == vs[v].adj[i]
         IN  IF ~vs[e.dest].visited /\ e.selected
             THEN DfsFor(dfsKruskalPath([vs EXCEPT ![e.dest].path = v], e.dest), v, i + 1)
             ELSE DfsFor(vs, v, i + 1)

dfsKruskalPath(vs, v) == DfsFor([vs EXCEPT ![v].visited = TRUE], v, 1)

\* lines 361-363
KruskalUnvisit(vs) == [v \in DOMAIN vs |-> [vs[v] EXCEPT !.visited = FALSE]]

\* lines 361-369, on a graph with a vertex
KruskalTreeNoRootReset(vs) == dfsKruskalPath(KruskalUnvisit(vs), 1)
KruskalTree(vs) == dfsKruskalPath([KruskalUnvisit(vs) EXCEPT ![1].path = NULL], 1)

\* lines 361-369: the loop is over; at(0) throws std::out_of_range on the
\* empty graph
KruskalFinish ==
    /\ pc = "kruskal"
    /\ ek > Len(edges)
    /\ IF vertexSet = <<>>
       THEN /\ vertexSet' = KruskalUnvisit(vertexSet)
            /\ ret' = "out_of_range"
       ELSE /\ vertexSet' = KruskalTree(vertexSet)
            /\ ret' = "vertexSet"
    /\ last' = "calculateKruskal"
    /\ pc' = "idle"
    /\ edges' = <<>>
    /\ ek' = 0
    /\ edgeCounter' = 0
    /\ UNCHANGED <<q, currV, ei, runs>>

calculateKruskal == KruskalStart \/ KruskalEdge \/ KruskalFinish

Init ==
    /\ vertexSet = <<>>
    /\ pc = "idle"
    /\ last = "Graph"
    /\ ret = "true"
    /\ q = {}
    /\ currV = NULL
    /\ ei = 0
    /\ edges = <<>>
    /\ ek = 0
    /\ edgeCounter = 0
    /\ runs = <<>>

\* ------------------------------------------------------ specifications
NumEdgeCalls ==
    Cardinality({l \in EdgeLocs(vertexSet) : EdgeAt(vertexSet, l).reverse = NULLE})
    + (Cardinality({l \in EdgeLocs(vertexSet) : EdgeAt(vertexSet, l).reverse # NULLE}) \div 2)

\* addEdge calls and calls that made a loop
NumSpecial ==
    Cardinality({l \in EdgeLocs(vertexSet) : EdgeAt(vertexSet, l).reverse = NULLE})
    + (Cardinality({l \in EdgeLocs(vertexSet) :
            /\ EdgeAt(vertexSet, l).reverse # NULLE
            /\ EdgeAt(vertexSet, l).orig = EdgeAt(vertexSet, l).dest}) \div 2)

\* SpecBuild: every construction call, failing ones included, on few contents
\* and two weights, the graph growing up to MaxBuildSize
BuildContents == 1..MaxContents
BuildWeights == {0, INF}
BuildSize == Len(vertexSet) + NumEdgeCalls

BuildVertex ==
    \E in \in BuildContents :
        /\ findVertex(in) = NULL => BuildSize < MaxBuildSize
        /\ addVertex(in)

BuildEdge ==
    \E s \in BuildContents, d \in BuildContents, w \in BuildWeights :
        /\ EndpointsExist(s, d) => BuildSize < MaxBuildSize
        /\ addEdge(s, d, w)

BuildBidirectionalEdge ==
    \E s \in BuildContents, d \in BuildContents, w \in BuildWeights :
        /\ EndpointsExist(s, d) => BuildSize < MaxBuildSize
        /\ addBidirectionalEdge(s, d, w)

NextBuild == BuildVertex \/ BuildEdge \/ BuildBidirectionalEdge

SpecBuild == Init /\ [][NextBuild]_vars

\* Spec: a graph is built once (the vertices get the contents 1, 2, ... in
\* this order, the edge calls name existing vertices), then the algorithms run
Special(s, d) == IF s = d THEN 1 ELSE 0

GraphVertex ==
    /\ runs = <<>>
    /\ Len(vertexSet) < MaxV
    /\ addVertex(Len(vertexSet) + 1)

GraphEdge ==
    /\ runs = <<>>
    /\ NumEdgeCalls < MaxEdgeCalls
    /\ NumSpecial < MaxSpecial
    /\ \E s \in V, d \in V, w \in Weights : addEdge(s, d, w)

GraphBidirectionalEdge ==
    /\ runs = <<>>
    /\ NumEdgeCalls < MaxEdgeCalls
    /\ \E s \in V, d \in V, w \in Weights :
          /\ NumSpecial + Special(s, d) <= MaxSpecial
          /\ addBidirectionalEdge(s, d, w)

\* SpecSets: graphs of edges of one weight, added in increasing order of
\* (sourc, dest) with sourc < dest; the sort, which may arrange equal weights
\* in any order, then makes calculateKruskal join the sets in any order
SetsVertex ==
    /\ runs = <<>>
    /\ Len(vertexSet) < MaxSetV
    /\ addVertex(Len(vertexSet) + 1)

SetsEdge ==
    /\ runs = <<>>
    /\ NumEdgeCalls < MaxSetEdges
    /\ \E s \in V, d \in V :
          /\ s < d
          /\ \A l \in EdgeLocs(vertexSet) :
                LET e == EdgeAt(vertexSet, l)
                IN  e.orig < e.dest => (e.orig < s \/ (e.orig = s /\ e.dest < d))
          /\ addBidirectionalEdge(s, d, 0)

\* one run of calculateKruskal on each graph
SetsKruskal ==
    /\ pc = "idle" => runs = <<>>
    /\ calculateKruskal

NextSets == SetsVertex \/ SetsEdge \/ SetsKruskal

SpecSets == Init /\ [][NextSets]_vars

Next ==
    \/ GraphVertex
    \/ GraphEdge
    \/ GraphBidirectionalEdge
    \/ calculatePrim
    \/ calculateKruskal

Spec == Init /\ [][Next]_vars

\* ------------------------------------------------ notions the claims use
RECURSIVE Closure(_, _, _)
\* the vertices reached from the set S along the edges E, from orig to dest
Closure(vs, S, E) ==
    LET N == S \cup {EdgeAt(vs, l).dest : l \in {k \in E : EdgeAt(vs, k).orig \in S}}
    IN  IF N = S THEN S ELSE Closure(vs, N, E)

RECURSIVE UClosure(_, _, _)
\* the same, the edges taken in both directions
UClosure(vs, S, E) ==
    LET N == S \cup {EdgeAt(vs, l).dest : l \in {k \in E : EdgeAt(vs, k).orig \in S}}
               \cup {EdgeAt(vs, l).orig : l \in {k \in E : EdgeAt(vs, k).dest \in S}}
    IN  IF N = S THEN S ELSE UClosure(vs, N, E)

RECURSIVE SumDist(_)
SumDist(S) ==
    IF S = {} THEN 0
    ELSE LET v == CHOOSE x \in S : TRUE IN vertexSet[v].dist + SumDist(S \ {v})

RECURSIVE SumWeight(_)
SumWeight(E) ==
    IF E = {} THEN 0
    ELSE LET l == CHOOSE x \in E : TRUE IN EdgeAt(vertexSet, l).weight + SumWeight(E \ {l})

AllEdges == EdgeLocs(vertexSet)
FiniteEdges == {l \in AllEdges : EdgeAt(vertexSet, l).weight < INF}
SelectedEdges == {l \in AllEdges : EdgeAt(vertexSet, l).selected}

\* built with addVertex and addBidirectionalEdge only
Undirected == \A l \in AllEdges : EdgeAt(vertexSet, l).reverse # NULLE
NonNegativeFinite ==
    \A l \in AllEdges : 0 <= EdgeAt(vertexSet, l).weight /\ EdgeAt(vertexSet, l).weight < INF
Connected == vertexSet # <<>> /\ Closure(vertexSet, {1}, AllEdges) = V
ConnectedFinite == vertexSet # <<>> /\ Closure(vertexSet, {1}, FiniteEdges) = V

\* one edge of each pair of an undirected graph
PairEdges == {l \in AllEdges : EdgeAt(vertexSet, l).orig < EdgeAt(vertexSet, l).dest}
SpanningTrees ==
    {T \in SUBSET PairEdges :
        Cardinality(T) = Len(vertexSet) - 1 /\ UClosure(vertexSet, {1}, T) = V}
\* the total weight of a minimum spanning tree of a connected undirected graph
MSTWeight ==
    LET ws == {SumWeight(T) : T \in SpanningTrees}
    IN  CHOOSE w \in ws : \A x \in ws : w <= x

PrimDone == pc = "idle" /\ last = "calculatePrim" /\ ret = "vertexSet"
KruskalDone == pc = "idle" /\ last = "calculateKruskal" /\ ret = "vertexSet"
\* both algorithms have run on the graph, in either order
BothDone ==
    /\ pc = "idle"
    /\ ret = "vertexSet"
    /\ Len(runs) = 2
    /\ runs[1] # runs[2]

PrimSum == SumDist(V \ {1})

\* ---------------------------------------------------------------- C1
\* C1: after calculatePrim on a connected undirected graph (addVertex and
\* addBidirectionalEdge only) whose weights are non-negative and finite (less
\* than INF), exactly the vertices other than the one at index 0 have a
\* non-null path, and the sum of dist over them is the weight of a minimum
\* spanning tree.
C1_PrimMST ==
    (PrimDone /\ Undirected /\ NonNegativeFinite /\ Connected) =>
        /\ {v \in V : vertexSet[v].path # NULL} = V \ {1}
        /\ Cardinality({v \in V : vertexSet[v].path # NULL}) = Len(vertexSet) - 1
        /\ PrimSum = MSTWeight

\* a triangle whose heaviest edge is left out of the tree
C1_Witness ==
    /\ PrimDone /\ Undirected /\ NonNegativeFinite /\ Connected
    /\ Len(vertexSet) = 3
    /\ Cardinality(PairEdges) = 3
    /\ PrimSum = 1
    /\ SumWeight(PairEdges) = 2

\* ---------------------------------------------------------------- C2
\* C2 as stated: on every connected undirected graph, half the weight of the
\* edges calculateKruskal selects equals the sum of dist over the non-root
\* vertices after calculatePrim.
C2_AsStated ==
    (BothDone /\ Undirected /\ Connected) => SumWeight(SelectedEdges) = 2 * PrimSum

\* C2 amended: the same on every undirected graph that is connected through
\* edges of weight less than INF; both are then the weight of a minimum
\* spanning tree, whatever order the sort gives edges of equal weight.
C2_KruskalEqualsPrim ==
    (BothDone /\ Undirected /\ ConnectedFinite) =>
        /\ SumWeight(SelectedEdges) = 2 * PrimSum
        /\ PrimSum = MSTWeight

\* a triangle with two edges of equal weight, one edge not selected
C2_Witness ==
    /\ BothDone /\ Undirected /\ ConnectedFinite
    /\ Len(vertexSet) = 3
    /\ Cardinality(PairEdges) = 3
    /\ \E l, k \in PairEdges : l # k /\ EdgeAt(vertexSet, l).weight = EdgeAt(vertexSet, k).weight
    /\ \E l \in PairEdges : ~EdgeAt(vertexSet, l).selected
    /\ PrimSum = 1

\* ---------------------------------------------------------------- C3
RECURSIVE ReachesRoot(_, _)
\* following path from v reaches the vertex at index 0 in at most n steps
ReachesRoot(v, n) ==
    IF v = 1 THEN TRUE
    ELSE IF n = 0 \/ v = NULL THEN FALSE
    ELSE ReachesRoot(vertexSet[v].path, n - 1)

\* C3: after calculateKruskal on a connected undirected graph the paths form
\* a spanning tree rooted at index 0: the root has no path, every other vertex
\* has a path joined to it by a selected edge and leading to the root without a
\* cycle, and every path is one the final traversal wrote (the vertex is
\* visited and is not its own path, as a set representative is).
C3_KruskalTree ==
    (KruskalDone /\ Undirected /\ Connected) =>
        /\ vertexSet[1].path = NULL
        /\ \A v \in V \ {1} :
              /\ vertexSet[v].path # NULL
              /\ vertexSet[v].path # v
              /\ vertexSet[v].visited
              /\ \E l \in SelectedEdges :
                    /\ EdgeAt(vertexSet, l).orig = vertexSet[v].path
                    /\ EdgeAt(vertexSet, l).dest = v
              /\ ReachesRoot(v, Len(vertexSet) - 1)

\* a tree of depth two, with an edge left out
C3_Witness ==
    /\ KruskalDone /\ Undirected /\ Connected
    /\ Len(vertexSet) = 3
    /\ \E v \in V : vertexSet[v].path \notin {NULL, 1}
    /\ \E l \in PairEdges : ~EdgeAt(vertexSet, l).selected

\* ---------------------------------------------------------------- C4
\* C4 as stated: after calculatePrim on any non-empty graph, a vertex not
\* reachable from index 0 has dist = INF and no path, and a reachable vertex
\* other than the root has dist < INF and a path.
C4_AsStated ==
    PrimDone =>
        \A v \in V \ {1} :
            IF v \in Closure(vertexSet, {1}, AllEdges)
            THEN vertexSet[v].dist < INF /\ vertexSet[v].path # NULL
            ELSE vertexSet[v].dist = INF /\ vertexSet[v].path = NULL

\* C4 amended: the same, with reachable read as reachable along edges of
\* weight less than INF.
C4_PrimComponent ==
    PrimDone =>
        \A v \in V \ {1} :
            IF v \in Closure(vertexSet, {1}, FiniteEdges)
            THEN vertexSet[v].dist < INF /\ vertexSet[v].path # NULL
            ELSE vertexSet[v].dist = INF /\ vertexSet[v].path = NULL

\* a directed edge reaches one vertex, the other is unreachable, after
\* calculateKruskal had left set representatives in path
C4_Witness ==
    /\ PrimDone
    /\ runs = <<"calculateKruskal", "calculatePrim">>
    /\ Len(vertexSet) = 3
    /\ \E v \in V \ {1} : v \notin Closure(vertexSet, {1}, FiniteEdges)
    /\ \E v \in V \ {1} : v \in Closure(vertexSet, {1}, FiniteEdges)
    /\ ~Undirected

\* ---------------------------------------------------------------- C5
\* C5: no operation throws, the algorithms on the graph without vertices
\* included.
C5_NoThrow == ret # "out_of_range"

\* ---------------------------------------------------------------- C6
HasContent(in) == \E v \in V : vertexSet[v].info = in

\* C6: addVertex(c) returns false exactly when a vertex of content c exists,
\* and then changes nothing; otherwise it appends one vertex without edges at
\* the end and returns true.  No two vertices have equal content.
C6_AddVertex ==
    /\ [](\A u, v \in V : vertexSet[u].info = vertexSet[v].info => u = v)
    /\ [][last' = "addVertex" => \A in \in BuildContents : addVertex(in) =>
            IF HasContent(in)
            THEN ret' = "false" /\ vertexSet' = vertexSet
            ELSE /\ ret' = "true"
                 /\ Len(vertexSet') = Len(vertexSet) + 1
                 /\ SubSeq(vertexSet', 1, Len(vertexSet)) = vertexSet
                 /\ vertexSet'[Len(vertexSet')].info = in
                 /\ vertexSet'[Len(vertexSet')].adj = <<>>]_vars

\* a duplicate was refused on a graph of two vertices with edges
C6_Witness ==
    /\ last = "addVertex"
    /\ ret = "false"
    /\ Len(vertexSet) = 2
    /\ AllEdges # {}

\* ---------------------------------------------------------------- C7
Vertex(in) == CHOOSE v \in V : vertexSet[v].info = in

\* C7: addEdge and addBidirectionalEdge return false exactly when sourc or
\* dest is the content of no vertex, and then change nothing; otherwise they
\* return true, and addEdge appends exactly one edge sourc->dest of weight w
\* to the end of the adjacency of sourc.
C7_AddEdge ==
    /\ [][last' = "addEdge" =>
            \A s \in BuildContents, d \in BuildContents, w \in BuildWeights : addEdge(s, d, w) =>
            IF ~HasContent(s) \/ ~HasContent(d)
            THEN ret' = "false" /\ vertexSet' = vertexSet
            ELSE /\ ret' = "true"
                 /\ vertexSet' = [vertexSet EXCEPT ![Vertex(s)].adj =
                        Append(@, [orig |-> Vertex(s), dest |-> Vertex(d), weight |-> w,
                                   selected |-> FALSE, reverse |-> NULLE])]]_vars
    /\ [][last' = "addBidirectionalEdge" =>
            \A s \in BuildContents, d \in BuildContents, w \in BuildWeights :
            addBidirectionalEdge(s, d, w) =>
                IF ~HasContent(s) \/ ~HasContent(d)
                THEN ret' = "false" /\ vertexSet' = vertexSet
                ELSE ret' = "true"]_vars

\* an edge call was refused on a graph that has a vertex and an edge
C7_Witness ==
    /\ last \in {"addEdge", "addBidirectionalEdge"}
    /\ ret = "false"
    /\ AllEdges # {}

\* ---------------------------------------------------------------- C8
ReversePaired(vs) ==
    \A l \in EdgeLocs(vs) :
        LET e == EdgeAt(vs, l)
        IN  e.reverse # NULLE =>
                /\ e.reverse \in EdgeLocs(vs)
                /\ e.reverse # l
                /\ EdgeAt(vs, e.reverse).reverse = l
                /\ EdgeAt(vs, e.reverse).orig = e.dest
                /\ EdgeAt(vs, e.reverse).dest = e.orig
                /\ EdgeAt(vs, e.reverse).weight = e.weight

\* C8: a successful addBidirectionalEdge(a, b, w) makes an edge a->b and an
\* edge b->a of weight w, each the reverse of the other; every edge e with a
\* reverse has reverse(reverse(e)) = e, the reverse going from dest(e) to
\* orig(e) with the same weight; an edge made by addEdge has no reverse.
C8_ReversePairs ==
    /\ []ReversePaired(vertexSet)
    /\ [][last' = "addBidirectionalEdge" =>
            \A s \in BuildContents, d \in BuildContents, w \in BuildWeights :
            (addBidirectionalEdge(s, d, w) /\ HasContent(s) /\ HasContent(d)) =>
                \E l1, l2 \in EdgeLocs(vertexSet') \ EdgeLocs(vertexSet) :
                    /\ l1 # l2
                    /\ EdgeLocs(vertexSet') = EdgeLocs(vertexSet) \cup {l1, l2}
                    /\ EdgeAt(vertexSet', l1) =
                          [orig |-> Vertex(s), dest |-> Vertex(d), weight |-> w,
                           selected |-> FALSE, reverse |-> l2]
                    /\ EdgeAt(vertexSet', l2) =
                          [orig |-> Vertex(d), dest |-> Vertex(s), weight |-> w,
                           selected |-> FALSE, reverse |-> l1]]_vars
    /\ [][last' = "addEdge" =>
            \A s \in BuildContents, d \in BuildContents, w \in BuildWeights :
            (addEdge(s, d, w) /\ HasContent(s) /\ HasContent(d)) =>
                \A l \in EdgeLocs(vertexSet') \ EdgeLocs(vertexSet) :
                    EdgeAt(vertexSet', l).reverse = NULLE]_vars

\* a pair between two vertices, a pair on one vertex and an addEdge edge
C8_Witness ==
    /\ last = "addBidirectionalEdge"
    /\ ret = "true"
    /\ \E l \in AllEdges :
          EdgeAt(vertexSet, l).reverse # NULLE /\ EdgeAt(vertexSet, l).orig # EdgeAt(vertexSet, l).dest
    /\ \E l \in AllEdges : EdgeAt(vertexSet, l).reverse = NULLE

\* ---------------------------------------------------------------- C9
\* what findSet(v) returns
Representative(v) == findSet(vertexSet, v).ret

\* C9: in the loop of calculateKruskal, after edgeCounter calls of linkSets on
\* vertices of different sets, there are V - edgeCounter distinct
\* representatives, and two vertices have the same representative exactly
\* when the edges selected so far join them; the findSet calls of a turn that
\* links nothing leave every representative as it was.
C9_DisjointSets ==
    /\ [](pc = "kruskal" =>
            /\ Cardinality({Representative(v) : v \in V}) = Len(vertexSet) - edgeCounter
            /\ \A x, y \in V :
                  (Representative(x) = Representative(y))
                      <=> (y \in UClosure(vertexSet, {x}, SelectedEdges)))
    /\ [][(KruskalEdge /\ edgeCounter' = edgeCounter) =>
            \A v \in V : findSet(vertexSet', v).ret = Representative(v)]_vars

\* three unions made a tree of depth two and findSet has since shortened a path
C9_Witness ==
    /\ pc = "kruskal"
    /\ Len(vertexSet) = 4
    /\ edgeCounter = 3
    /\ ek = 5
    /\ \E v \in V : vertexSet[v].path # v /\ vertexSet[vertexSet[v].path].path # vertexSet[v].path

\* ---------------------------------------------------------------- C10
\* C10 as stated: every edge currV->v of the extracted vertex is relaxed: if
\* its weight is less than the dist of v, v gets that dist and currV as path,
\* and enters the queue if its dist was INF, its key being decreased
\* otherwise.
C10_AsStated ==
    [][PrimRelax =>
        LET e == vertexSet[currV].adj[ei]
            v == e.dest
        IN  IF e.weight < vertexSet[v].dist
            THEN /\ vertexSet'[v].dist = e.weight
                 /\ vertexSet'[v].path = currV
                 /\ IF vertexSet[v].dist = INF THEN q' = q \cup {v} ELSE v \in q /\ q' = q
            ELSE /\ vertexSet'[v].dist = vertexSet[v].dist
                 /\ vertexSet'[v].path = vertexSet[v].path
                 /\ q' = q]_vars

\* C10 amended: the same for the edges whose destination v is not yet
\* visited; an edge to a visited vertex changes nothing.  The edges of the
\* extracted vertex, which is marked visited, are taken in order and all of
\* them before the next extraction.
C10_PrimRelax ==
    /\ [][PrimRelax =>
            LET e == vertexSet[currV].adj[ei]
                v == e.dest
            IN  IF ~vertexSet[v].visited /\ e.weight < vertexSet[v].dist
                THEN /\ vertexSet'[v].dist = e.weight
                     /\ vertexSet'[v].path = currV
                     /\ IF vertexSet[v].dist = INF THEN q' = q \cup {v} ELSE v \in q /\ q' = q
                ELSE /\ vertexSet'[v].dist = vertexSet[v].dist
                     /\ vertexSet'[v].path = vertexSet[v].path
                     /\ q' = q]_vars
    /\ [][PrimExtract => vertexSet'[currV'].visited /\ ei' = 1 /\ currV' \in q
                            /\ (pc' = "prim" <=> vertexSet[currV'].adj = <<>>)]_vars
    /\ [][PrimRelax => ei' = ei + 1 /\ currV' = currV
                          /\ (pc' = "prim" <=> ei = Len(vertexSet[currV].adj))]_vars

\* a key was decreased, and an edge to a visited vertex of greater dist than
\* its weight is about to be taken
C10_Witness ==
    /\ pc = "primFor"
    /\ ei <= Len(vertexSet[currV].adj)
    /\ LET e == vertexSet[currV].adj[ei]
       IN  vertexSet[e.dest].visited /\ e.weight < vertexSet[e.dest].dist
    /\ \E v \in V : vertexSet[v].dist < INF /\ vertexSet[v].path \notin {NULL, 1}
====
